---- MODULE Spec2Model ----
\* Model of update_issues_fields.py: the rule table, the rule evaluator
\* (isRuleApplicable), the transition decider (updateStatusIfNeeded) and the
\* project/issue loop of main(), with the JIRA backend as environment.
EXTENDS Integers, Sequences, FiniteSets, TLC

-----------------------------------------------------------------------------
\* Bounds of the model.

\* longest list of subtasks carried by one issue
MaxSubtasks == 2
\* longest list of project codes read from config/config.yaml
MaxProjects == 2

-----------------------------------------------------------------------------
\* Status vocabulary (update_issues_fields.py lines 34-47).

TO_DO == "TO DO"
BLOCKED == "BLOCKED"
IN_PROGRESS == "IN PROGRESS"
DONE == "DONE"
ACCEPTED == "ACCEPTED"

MODIFIABLE_STATUS == {TO_DO, BLOCKED, IN_PROGRESS, DONE}
NON_MODIFIABLE_STATUS == {ACCEPTED}
SUPPORTED_STATUS == MODIFIABLE_STATUS \cup NON_MODIFIABLE_STATUS

RULE_POLICY_AT_LEAST_ONE == "at_least_one"
RULE_POLICY_ALL == "all"
SUPPORTED_RULE_POLICY == {RULE_POLICY_AT_LEAST_ONE, RULE_POLICY_ALL}

\* A mutation of the table: the two AT-LEAST-ONE entries swapped.
STATUS_RULES_Swapped ==
  << [status |-> DONE,        policy |-> RULE_POLICY_ALL,          possible |-> {DONE, ACCEPTED}],
     [status |-> TO_DO,       policy |-> RULE_POLICY_ALL,          possible |-> {TO_DO}],
     [status |-> IN_PROGRESS, policy |-> RULE_POLICY_AT_LEAST_ONE, possible |-> {IN_PROGRESS}],
     [status |-> BLOCKED,     policy |-> RULE_POLICY_AT_LEAST_ONE, possible |-> {BLOCKED}] >>

\* (TARGET_STATUS, (RULE_POLICY, {POSSIBLE_STATUSES})), in priority order.
STATUS_RULES ==
  << [status |-> DONE,        policy |-> RULE_POLICY_ALL,          possible |-> {DONE, ACCEPTED}],
     [status |-> TO_DO,       policy |-> RULE_POLICY_ALL,          possible |-> {TO_DO}],
     [status |-> BLOCKED,     policy |-> RULE_POLICY_AT_LEAST_ONE, possible |-> {BLOCKED}],
     [status |-> IN_PROGRESS, policy |-> RULE_POLICY_AT_LEAST_ONE, possible |-> {IN_PROGRESS}] >>

\* Status names as the backend may spell them (status.name): the five
\* canonical uppercase names, mixed-case spellings, and a name outside the
\* vocabulary.
StatusNames ==
  {"TO DO", "BLOCKED", "IN PROGRESS", "DONE", "ACCEPTED",
   "To Do", "In Progress", "Done", "Closed"}

\* str.upper() on the names above.
Upper(name) ==
  CASE name = "To Do"       -> "TO DO"
    [] name = "In Progress" -> "IN PROGRESS"
    [] name = "Done"        -> "DONE"
    [] name = "Closed"      -> "CLOSED"
    [] OTHER                -> name

\* Lists of at most n elements of S.
SeqUpTo(S, n) == UNION {[1..k -> S] : k \in 0..n}

-----------------------------------------------------------------------------
\* isRuleApplicable (lines 99-128).

\* for subt in subtasks: if subt...upper() not in possibleStatus: return False
RECURSIVE AllLoop(_, _, _)
AllLoop(subtasks, i, possibleStatus) ==
  IF i > Len(subtasks) THEN TRUE
  ELSE IF Upper(subtasks[i]) \notin possibleStatus THEN FALSE
  ELSE AllLoop(subtasks, i + 1, possibleStatus)

\* for subt in subtasks: if subt...upper() in possibleStatus: return True
RECURSIVE AtLeastOneLoop(_, _, _)
AtLeastOneLoop(subtasks, i, possibleStatus) ==
  IF i > Len(subtasks) THEN FALSE
  ELSE IF Upper(subtasks[i]) \in possibleStatus THEN TRUE
  ELSE AtLeastOneLoop(subtasks, i + 1, possibleStatus)

\* A mutation: the ALL policy rejects an issue without subtasks.
isRuleApplicable_EmptyAllFails(issue, rulePolicy, possibleStatus) ==
  IF rulePolicy = RULE_POLICY_ALL
    THEN Len(issue.subtasks) > 0 /\ AllLoop(issue.subtasks, 1, possibleStatus)
  ELSE IF rulePolicy = RULE_POLICY_AT_LEAST_ONE
    THEN AtLeastOneLoop(issue.subtasks, 1, possibleStatus)
  ELSE FALSE

isRuleApplicable(issue, rulePolicy, possibleStatus) ==
  IF rulePolicy = RULE_POLICY_ALL
    THEN AllLoop(issue.subtasks, 1, possibleStatus)
  ELSE IF rulePolicy = RULE_POLICY_AT_LEAST_ONE
    THEN AtLeastOneLoop(issue.subtasks, 1, possibleStatus)
  ELSE FALSE

-----------------------------------------------------------------------------
\* updateStatusIfNeeded (lines 62-96), up to the backend call.

\* A mutation: every status is taken as modifiable.
IsModifiable_Always(issueStatus) == TRUE

\* line 83: issueStatus.upper() in MODIFIABLE_STATUS
IsModifiable(issueStatus) == Upper(issueStatus) \in MODIFIABLE_STATUS

\* A mutation: the dry-run flag is not consulted.
ShouldTransition_IgnoreDryrun(newStatus, issueStatus, dryrun) ==
  newStatus # issueStatus

\* line 89: newStatus != issueStatus and not dryrun (plain string comparison)
ShouldTransition(newStatus, issueStatus, dryrun) ==
  newStatus # issueStatus /\ ~dryrun

\* lines 84-93: the scan of STATUS_RULES, stopping at the first applicable one.
\* evaluated counts the rules passed to isRuleApplicable.
RECURSIVE RuleLoop(_, _, _)
RuleLoop(issue, dryrun, i) ==
  IF i > Len(STATUS_RULES)
    THEN [newStatus |-> issue.status, matched |-> FALSE, ruleIndex |-> 0,
          evaluated |-> Len(STATUS_RULES), transition |-> FALSE]
  ELSE IF isRuleApplicable(issue, STATUS_RULES[i].policy, STATUS_RULES[i].possible)
    THEN [newStatus |-> STATUS_RULES[i].status, matched |-> TRUE, ruleIndex |-> i,
          evaluated |-> i,
          transition |-> ShouldTransition(STATUS_RULES[i].status, issue.status, dryrun)]
  ELSE RuleLoop(issue, dryrun, i + 1)

\* The decision of one call: the new status, whether jira.transition_issue is
\* called, and the value returned when the call does not raise (line 96).
updateStatusIfNeeded(issue, dryrun) ==
  LET d == IF IsModifiable(issue.status)
             THEN RuleLoop(issue, dryrun, 1)
             ELSE [newStatus |-> issue.status, matched |-> FALSE, ruleIndex |-> 0,
                   evaluated |-> 0, transition |-> FALSE]
  IN  [newStatus  |-> d.newStatus,
       matched    |-> d.matched,
       ruleIndex  |-> d.ruleIndex,
       evaluated  |-> d.evaluated,
       transition |-> d.transition,
       ret        |-> (issue.status # d.newStatus)]

-----------------------------------------------------------------------------
\* State of one run of main() and of the backend it talks to.

VARIABLES
  projectIDs,         \* getProjectIDs('config/config.yaml')
  dryrun,             \* args.dryrun
  index,              \* backend: project code -> keys of its issues in scope
  backend,            \* backend: issue key -> [status, subtasks]
  pc,                 \* position of main()
  pi,                 \* position of "for projectId in projectIDs"
  issues_in_project,  \* result of the last jira.search_issues
  ii,                 \* position of "for issue in issues_in_project"
  possibleChanges,
  performedChanges,
  trace,              \* one entry per call of updateStatusIfNeeded
  reports,            \* one entry per "End of operations" line
  fetches,            \* the issues each successful search returned
  ruleArgs,           \* arguments of a direct call of isRuleApplicable
  ruleResult          \* its result, <<>> before the call

vars == << projectIDs, dryrun, index, backend, pc, pi, issues_in_project, ii,
           possibleChanges, performedChanges, trace, reports, fetches,
           ruleArgs, ruleResult >>

Projects == {"P1", "P2"}

\* Every shape of issue within the bounds.
IssueData == [status : StatusNames, subtasks : SeqUpTo(StatusNames, MaxSubtasks)]

\* Issues used where several issues are in scope at once: the scenarios of the
\* decider (all done, childless, mixed, protected, already at target in
\* either spelling, unknown subtask status, no rule applicable).
Scenarios ==
  { [status |-> "To Do",       subtasks |-> << "Done", "Done" >>],
    [status |-> "IN PROGRESS", subtasks |-> << >>],
    [status |-> "BLOCKED",     subtasks |-> << "TO DO", "IN PROGRESS" >>],
    [status |-> "ACCEPTED",    subtasks |-> << "BLOCKED" >>],
    [status |-> "DONE",        subtasks |-> << "DONE" >>],
    [status |-> "Done",        subtasks |-> << "Done" >>],
    [status |-> "TO DO",       subtasks |-> << "Closed", "BLOCKED" >>],
    [status |-> "TO DO",       subtasks |-> << "TO DO", "DONE" >>] }

\* The names under which the backend may show the status a transition leads to.
BackendNames(target) == {n \in StatusNames : Upper(n) = target}

\* jira.search_issues: the project's issues with their current fields.
Snapshot(projectId) ==
  [i \in 1..Len(index[projectId]) |->
     [key      |-> index[projectId][i],
      status   |-> backend[index[projectId][i]].status,
      subtasks |-> backend[index[projectId][i]].subtasks]]

NoRuleArgs == [subtasks |-> << >>, policy |-> RULE_POLICY_ALL, possible |-> {DONE}]

InitRun ==
  /\ dryrun \in BOOLEAN
  /\ pc = "start"
  /\ pi = 1
  /\ issues_in_project = << >>
  /\ ii = 1
  /\ possibleChanges = 0
  /\ performedChanges = 0
  /\ trace = << >>
  /\ reports = << >>
  /\ fetches = << >>
  /\ ruleArgs = NoRuleArgs
  /\ ruleResult = << >>

\* Three issues in two projects, each one of the scenarios.
Init ==
  /\ InitRun
  /\ projectIDs \in SeqUpTo(Projects, MaxProjects)
  /\ index = [p \in Projects |-> IF p = "P1" THEN << "K1", "K2" >> ELSE << "K3" >>]
  /\ backend \in [{"K1", "K2", "K3"} -> Scenarios]

\* One issue of any shape, in a project that may be listed more than once.
InitOne ==
  /\ InitRun
  /\ projectIDs \in SeqUpTo({"P1"}, MaxProjects)
  /\ index = [p \in Projects |-> IF p = "P1" THEN << "K1" >> ELSE << >>]
  /\ backend \in [{"K1"} -> IssueData]

-----------------------------------------------------------------------------
\* main() (lines 164-202).

\* lines 176-178: no project code found. The critical message refers to
\* filePath, which main() does not define, so the run ends there.
NoProjects ==
  /\ pc = "start"
  /\ Len(projectIDs) = 0
  /\ pc' = "aborted"
  /\ UNCHANGED << projectIDs, dryrun, index, backend, pi, issues_in_project, ii,
                  possibleChanges, performedChanges, trace, reports, fetches,
                  ruleArgs, ruleResult >>

\* lines 176-183
Start ==
  /\ pc = "start"
  /\ Len(projectIDs) > 0
  /\ pc' = "projects"
  /\ UNCHANGED << projectIDs, dryrun, index, backend, pi, issues_in_project, ii,
                  possibleChanges, performedChanges, trace, reports, fetches,
                  ruleArgs, ruleResult >>

\* lines 185-195: the search succeeds
SearchOk ==
  /\ pc = "projects"
  /\ pi <= Len(projectIDs)
  /\ issues_in_project' = Snapshot(projectIDs[pi])
  /\ fetches' = Append(fetches, Snapshot(projectIDs[pi]))
  /\ possibleChanges' = 0
  /\ performedChanges' = 0
  /\ ii' = 1
  /\ pc' = "issues"
  /\ UNCHANGED << projectIDs, dryrun, index, backend, pi, trace, reports,
                  ruleArgs, ruleResult >>

\* lines 188-192: the search raises; the project is skipped
SearchFails ==
  /\ pc = "projects"
  /\ pi <= Len(projectIDs)
  /\ pi' = pi + 1
  /\ UNCHANGED << projectIDs, dryrun, index, backend, pc, issues_in_project, ii,
                  possibleChanges, performedChanges, trace, reports, fetches,
                  ruleArgs, ruleResult >>

\* The entry of trace for one call of updateStatusIfNeeded on issue with
\* decision d: called says whether jira.transition_issue was called, outcome
\* how it ended, logged whether line 94 was reached, changed the
\* didStatusChanged it printed, returned the value of line 96.
TraceEntry(issue, d, outcome) ==
  [key       |-> issue.key,
   status    |-> issue.status,
   subtasks  |-> issue.subtasks,
   newStatus |-> d.newStatus,
   matched   |-> d.matched,
   ruleIndex |-> d.ruleIndex,
   evaluated |-> d.evaluated,
   called    |-> d.transition,
   outcome   |-> outcome,
   logged    |-> outcome # "raised",
   changed   |-> outcome = "ok",
   returned  |-> (outcome # "raised" /\ d.ret)]

\* lines 197-201, updateStatusIfNeeded making no backend call
UpdateNoTransition ==
  /\ pc = "issues"
  /\ ii <= Len(issues_in_project)
  /\ LET issue == issues_in_project[ii]
         d == updateStatusIfNeeded(issue, dryrun)
     IN  /\ ~d.transition
         /\ possibleChanges' = possibleChanges + 1
         /\ performedChanges' = performedChanges + (IF d.ret THEN 1 ELSE 0)
         /\ trace' = Append(trace, TraceEntry(issue, d, "none"))
  /\ ii' = ii + 1
  /\ UNCHANGED << projectIDs, dryrun, index, backend, pc, pi, issues_in_project,
                  reports, fetches, ruleArgs, ruleResult >>

\* lines 197-201, jira.transition_issue succeeding: the backend moves the issue
UpdateTransitionOk ==
  /\ pc = "issues"
  /\ ii <= Len(issues_in_project)
  /\ LET issue == issues_in_project[ii]
         d == updateStatusIfNeeded(issue, dryrun)
     IN  /\ d.transition
         /\ \E n \in BackendNames(d.newStatus) :
              backend' = [backend EXCEPT ![issue.key].status = n]
         /\ possibleChanges' = possibleChanges + 1
         /\ performedChanges' = performedChanges + (IF d.ret THEN 1 ELSE 0)
         /\ trace' = Append(trace, TraceEntry(issue, d, "ok"))
  /\ ii' = ii + 1
  /\ UNCHANGED << projectIDs, dryrun, index, pc, pi, issues_in_project,
                  reports, fetches, ruleArgs, ruleResult >>

\* lines 197-200, jira.transition_issue raising: nothing catches the
\* exception, neither in updateStatusIfNeeded nor in main()
UpdateTransitionRaises ==
  /\ pc = "issues"
  /\ ii <= Len(issues_in_project)
  /\ LET issue == issues_in_project[ii]
         d == updateStatusIfNeeded(issue, dryrun)
     IN  /\ d.transition
         /\ possibleChanges' = possibleChanges + 1
         /\ trace' = Append(trace, TraceEntry(issue, d, "raised"))
  /\ pc' = "aborted"
  /\ UNCHANGED << projectIDs, dryrun, index, backend, pi, issues_in_project, ii,
                  performedChanges, reports, fetches, ruleArgs, ruleResult >>

\* line 202, then the next project
EndProject ==
  /\ pc = "issues"
  /\ ii > Len(issues_in_project)
  /\ reports' = Append(reports, [project   |-> projectIDs[pi],
                                 possible  |-> possibleChanges,
                                 performed |-> performedChanges])
  /\ pi' = pi + 1
  /\ pc' = "projects"
  /\ UNCHANGED << projectIDs, dryrun, index, backend, issues_in_project, ii,
                  possibleChanges, performedChanges, trace, fetches,
                  ruleArgs, ruleResult >>

\* the project loop is exhausted: main() returns
Finish ==
  /\ pc = "projects"
  /\ pi > Len(projectIDs)
  /\ pc' = "done"
  /\ UNCHANGED << projectIDs, dryrun, index, backend, pi, issues_in_project, ii,
                  possibleChanges, performedChanges, trace, reports, fetches,
                  ruleArgs, ruleResult >>

Next ==
  \/ NoProjects
  \/ Start
  \/ SearchOk
  \/ SearchFails
  \/ UpdateNoTransition
  \/ UpdateTransitionOk
  \/ UpdateTransitionRaises
  \/ EndProject
  \/ Finish

\* A run over three issues in two projects.
Spec == Init /\ [][Next]_vars

\* A run over one issue of any shape.
SpecOne == InitOne /\ [][Next]_vars

-----------------------------------------------------------------------------
\* isRuleApplicable called on its own, on any subtasks, policy and accepted set.

Policies == SUPPORTED_RULE_POLICY \cup {"any"}

InitRule ==
  /\ ruleArgs \in [subtasks : SeqUpTo(StatusNames, MaxSubtasks),
                   policy   : Policies,
                   possible : (SUBSET SUPPORTED_STATUS) \ {{}}]
  /\ ruleResult = << >>
  /\ pc = "rule"
  /\ projectIDs = << >>
  /\ dryrun = TRUE
  /\ index = [p \in Projects |-> << >>]
  /\ backend = << >>
  /\ pi = 1
  /\ issues_in_project = << >>
  /\ ii = 1
  /\ possibleChanges = 0
  /\ performedChanges = 0
  /\ trace = << >>
  /\ reports = << >>
  /\ fetches = << >>

EvalRule ==
  /\ pc = "rule"
  /\ ruleResult = << >>
  /\ ruleResult' = << isRuleApplicable([subtasks |-> ruleArgs.subtasks],
                                       ruleArgs.policy, ruleArgs.possible) >>
  /\ UNCHANGED << projectIDs, dryrun, index, backend, pc, pi, issues_in_project,
                  ii, possibleChanges, performedChanges, trace, reports, fetches,
                  ruleArgs >>

NextRule == EvalRule

SpecRule == InitRule /\ [][NextRule]_vars

-----------------------------------------------------------------------------
\* Properties.

\* The entries of trace in which jira.transition_issue was called.
Calls == {i \in DOMAIN trace : trace[i].called}

\* The statuses of a list of subtasks, in canonical form.
UpperSet(subtasks) == {Upper(subtasks[i]) : i \in DOMAIN subtasks}

\* C1 - Dry-run guarantee: in a run with the dry-run flag set,
\* jira.transition_issue is never called, for any issue, at any point.
C1_DryRunNeverTransitions ==
  dryrun => Calls = {}

\* A dry run that ended after examining an issue whose status would change.
C1_Witness ==
  /\ dryrun
  /\ pc = "done"
  /\ \E i \in DOMAIN trace : trace[i].matched /\ trace[i].returned

\* C2 - No-op guarantee: when the target of the matched rule equals the
\* issue's current status compared case-insensitively, no transition call is
\* made and the result is "matched but no change needed", dry run or not.
C2_NoOpWhenTargetIsCurrentStatus ==
  \A i \in DOMAIN trace :
    (trace[i].matched /\ Upper(trace[i].newStatus) = Upper(trace[i].status))
      => (~trace[i].called /\ ~trace[i].returned)

\* C3 - A failed transition call does not abort the run: the failure is
\* reported for that issue, the issue is recorded as unchanged, and the run
\* goes on to the later issues and projects.
C3_MutationFailureDoesNotAbort ==
  \A i \in DOMAIN trace :
    trace[i].outcome = "raised"
      => (trace[i].logged /\ ~trace[i].changed /\ pc # "aborted")

\* C4 - Protected-status guarantee: an issue whose status, uppercased, is not
\* in the mutable set gets no transition call and is reported as "no match,
\* no change", whatever its subtasks and the dry-run flag, before any rule
\* is evaluated.
C4_ProtectedStatusUntouched ==
  \A i \in DOMAIN trace :
    Upper(trace[i].status) \notin {"TO DO", "BLOCKED", "IN PROGRESS", "DONE"}
      => /\ ~trace[i].called
         /\ ~trace[i].matched
         /\ trace[i].newStatus = trace[i].status
         /\ ~trace[i].returned
         /\ trace[i].evaluated = 0

\* A live run that examined an ACCEPTED issue with a blocked subtask.
C4_Witness ==
  /\ ~dryrun
  /\ pc = "done"
  /\ \E i \in DOMAIN trace :
       /\ trace[i].status = "ACCEPTED"
       /\ trace[i].subtasks = << "BLOCKED" >>

\* C5 - At most one transition per issue per run: over a whole run the
\* transition call is made at most once for any issue key, and only when a
\* rule matched, the matched target differs from the issue's current status,
\* and the run is not a dry run.
C5_AtMostOneTransitionPerIssue ==
  /\ \A i, j \in Calls : trace[i].key = trace[j].key => i = j
  /\ \A i \in Calls :
       /\ trace[i].matched
       /\ Upper(trace[i].newStatus) # Upper(trace[i].status)
       /\ ~dryrun

\* The target the rule table gives for a list of subtasks, written out in
\* the order the claim states; "" when no entry is satisfied.
FirstMatchTarget(subtasks) ==
  IF UpperSet(subtasks) \subseteq {"DONE", "ACCEPTED"} THEN "DONE"
  ELSE IF UpperSet(subtasks) \subseteq {"TO DO"} THEN "TO DO"
  ELSE IF "BLOCKED" \in UpperSet(subtasks) THEN "BLOCKED"
  ELSE IF "IN PROGRESS" \in UpperSet(subtasks) THEN "IN PROGRESS"
  ELSE ""

\* The position of that entry in the table; 0 when none is satisfied.
FirstMatchIndex(subtasks) ==
  IF UpperSet(subtasks) \subseteq {"DONE", "ACCEPTED"} THEN 1
  ELSE IF UpperSet(subtasks) \subseteq {"TO DO"} THEN 2
  ELSE IF "BLOCKED" \in UpperSet(subtasks) THEN 3
  ELSE IF "IN PROGRESS" \in UpperSet(subtasks) THEN 4
  ELSE 0

\* C6 - First-match priority: for an issue in a mutable status the decider
\* returns the target of the earliest satisfied entry of the table (ALL
\* {DONE, ACCEPTED} -> DONE, ALL {TO DO} -> TO DO, AT-LEAST-ONE {BLOCKED} ->
\* BLOCKED, AT-LEAST-ONE {IN PROGRESS} -> IN PROGRESS) and evaluates no later
\* entry; BLOCKED together with IN PROGRESS gives BLOCKED, no subtasks gives
\* DONE, and with no entry satisfied the status stays and no match is recorded.
C6_FirstMatchPriority ==
  \A i \in DOMAIN trace :
    Upper(trace[i].status) \in {"TO DO", "BLOCKED", "IN PROGRESS", "DONE"}
      => IF FirstMatchIndex(trace[i].subtasks) = 0
           THEN /\ ~trace[i].matched
                /\ trace[i].newStatus = trace[i].status
                /\ ~trace[i].called
                /\ ~trace[i].returned
           ELSE /\ trace[i].matched
                /\ trace[i].newStatus = FirstMatchTarget(trace[i].subtasks)
                /\ trace[i].evaluated = FirstMatchIndex(trace[i].subtasks)
                /\ ({"BLOCKED", "IN PROGRESS"} \subseteq UpperSet(trace[i].subtasks)
                      => trace[i].newStatus = "BLOCKED")
                /\ (trace[i].subtasks = << >> => trace[i].newStatus = "DONE")

\* An issue whose subtasks satisfy both AT-LEAST-ONE entries went to BLOCKED.
C6_Witness ==
  \E i \in DOMAIN trace :
    /\ trace[i].status = "TO DO"
    /\ UpperSet(trace[i].subtasks) = {"BLOCKED", "IN PROGRESS"}
    /\ trace[i].newStatus = "BLOCKED"
    /\ trace[i].called

\* The number of issues of a search result for which a dry-run call of
\* updateStatusIfNeeded returns True.
RECURSIVE DryRunChanges(_, _)
DryRunChanges(issues, i) ==
  IF i > Len(issues) THEN 0
  ELSE (IF updateStatusIfNeeded(issues[i], TRUE).ret THEN 1 ELSE 0)
         + DryRunChanges(issues, i + 1)

\* C7 - Dry-run reporting equivalence: on the same input data, the value
\* updateStatusIfNeeded returns for each issue and the per-project counts of
\* issues examined and changed are those of a dry-run pass, whether the run
\* is a dry run or not.
C7_SameReportAsDryRun ==
  /\ \A i \in DOMAIN trace :
       /\ trace[i].outcome # "raised"
       /\ trace[i].returned = updateStatusIfNeeded(trace[i], TRUE).ret
  /\ pc \in {"done", "aborted"} =>
       /\ Len(reports) = Len(fetches)
       /\ \A k \in DOMAIN reports :
            /\ reports[k].possible = Len(fetches[k])
            /\ reports[k].performed = DryRunChanges(fetches[k], 1)

\* C8 - Unrecognized-status skip: when the parent issue or one of its
\* subtasks has a status outside {TO DO, BLOCKED, IN PROGRESS, DONE,
\* ACCEPTED}, no transition call is made for the parent, and the issue still
\* counts as examined.
C8_UnrecognizedStatusSkipped ==
  /\ \A i \in DOMAIN trace :
       ~({Upper(trace[i].status)} \cup UpperSet(trace[i].subtasks)
           \subseteq {"TO DO", "BLOCKED", "IN PROGRESS", "DONE", "ACCEPTED"})
         => ~trace[i].called
  /\ pc = "issues" => possibleChanges = ii - 1

\* C9 - Idempotence: when updateStatusIfNeeded runs a second time on an issue
\* in a live run, after the backend applied the transition of the first time
\* and with nothing else changed, no transition call is made and no change
\* is reported.
C9_SecondRunIsNoOp ==
  \A i, j \in DOMAIN trace :
    (~dryrun /\ i < j /\ trace[i].key = trace[j].key /\ trace[i].outcome # "raised")
      => (~trace[j].called /\ ~trace[j].returned)

\* The reference of the two policies, by quantifiers.
PolicyReference(subtasks, policy, possible) ==
  IF policy = "all" THEN \A i \in DOMAIN subtasks : Upper(subtasks[i]) \in possible
  ELSE IF policy = "at_least_one"
    THEN \E i \in DOMAIN subtasks : Upper(subtasks[i]) \in possible
  ELSE FALSE

\* C10 - Policy evaluation: isRuleApplicable with policy ALL is true iff every
\* subtask status, uppercased, is in the accepted set (so true without
\* subtasks); with AT-LEAST-ONE iff some subtask status is (so false without
\* subtasks); with any other policy it is false.
C10_PolicyMatchesReference ==
  ruleResult # << >> =>
    /\ ruleResult[1] = PolicyReference(ruleArgs.subtasks, ruleArgs.policy, ruleArgs.possible)
    /\ (ruleArgs.subtasks = << >> => ruleResult[1] = (ruleArgs.policy = "all"))
    /\ (ruleArgs.policy \notin {"all", "at_least_one"} => ruleResult[1] = FALSE)

\* The ALL policy was evaluated on an empty list of subtasks and held.
C10_Witness ==
  /\ ruleResult = << TRUE >>
  /\ ruleArgs.subtasks = << >>
  /\ ruleArgs.policy = "all"

====
